---- MODULE Spec2Model ----
(***************************************************************************)
(* Scratch-org pool of sfpowerscripts: the retrying remote client          *)
(* (QueryHelper, async-retry), the prerequisite detector                   *)
(* (PreRequisiteCheck), the pool query and listing (ScratchOrgUtils,       *)
(* PoolListImpl, the pool:list command) and the fetch/assign path over     *)
(* the shared ScratchOrgInfo store.                                        *)
(*                                                                         *)
(* One module, several specifications over one set of variables:           *)
(*   SpecPrereq  PreRequisiteCheck.checkForPrerequisites, call after call  *)
(*   SpecRetry   one retry-wrapped remote operation at a time              *)
(*   SpecRetryFair the same, each awaited remote call settling             *)
(*   SpecList    PoolListImpl.execute and List.run over a store            *)
(*   SpecScenario the same over the legacy pool of three records           *)
(*   SpecExecute PoolListImpl.execute, await by await                      *)
(*   SpecPool    concurrent fetchers reading and assigning records         *)
(*   SpecSetInfo ScratchOrgUtils.setScratchOrgInfo, call after call        *)
(*   SpecReclaim concurrent fetchers and a deleteScratchOrg process        *)
(*   SpecCreate  ScratchOrgUtils.createScratchOrg, step by step            *)
(*   SpecRecordId ScratchOrgUtils.getScratchOrgRecordId over a batch       *)
(* Each specification leaves the variables of the others at their initial  *)
(* values.                                                                 *)
(***************************************************************************)
EXTENDS Integers, Sequences, FiniteSets

VARIABLES
  \* ---- PreRequisiteCheck (static fields, one per process) ----
  isPrerequisiteChecked,   \* PreRequisiteCheck.isPrerequisiteChecked
  isPrerequisiteMet,       \* PreRequisiteCheck.isPrerequisiteMet
  describeResult,          \* PreRequisiteCheck.describeResult
  pcCheck,                 \* position of the running checkForPrerequisites call
  calls,                   \* checkForPrerequisites calls that have ended
  describeCalls,           \* describe() calls issued so far in the process
  describeReturns,         \* describe() calls that returned (did not throw)
  lastCheck,               \* how the last ended call ended
  everFailed,              \* some ended call failed (any error)
  everNotMet,              \* some ended call reached the verdict "not met"
  everSucceeded,           \* some ended call returned normally
  \* ---- async-retry operation in progress ----
  attempts,                \* attempts made by the running retry operation
  errors,                  \* errors thrown by its attempts, in order
  \* ---- one retry-wrapped remote operation (SpecRetry) ----
  op,                      \* the operation running or last run
  pcOp,                    \* "idle" | "running" | "done"
  remoteCalls,             \* remote calls issued by the operation
  opResult,                \* what the operation handed to its caller
  opsDone,                 \* operations that have ended
  \* ---- the shared ScratchOrgInfo store and the list command ----
  store,                   \* record id -> ScratchOrgInfo record
  isNewVersionCompatible,  \* ScratchOrgUtils.isNewVersionCompatible
  listFlags,               \* flags of the pool:list command that ran
  listArgs,                \* constructor arguments of the PoolListImpl that ran
  scratchOrgList,          \* what PoolListImpl.execute returned
  output,                  \* what List.run returned
  pcList,                  \* "idle" | "executed" | "listed"
  \* ---- concurrent fetchers (SpecPool) ----
  pcFetch,                 \* fetcher -> "start" | "assign" | "done"
  fetched,                 \* fetcher -> records its read returned
  handed,                  \* fetcher -> record ids handed to it
  assignedAtRead,          \* fetcher -> ids that were Assigned when it read
  transitions,             \* record id -> fetchers whose update made it Assigned
  \* ---- setScratchOrgInfo (SpecSetInfo) ----
  pcSet,                   \* "idle" | "running" | "done"
  soInfoArg,               \* the soInfo argument of the running or last call
  updatePlan,              \* attempt -> what update(soInfo) does on that attempt
  updateCalls,             \* update(soInfo) calls issued by the call
  setResult,               \* what the call handed to its caller
  \* ---- deleteScratchOrg (SpecReclaim) ----
  pcDelete,                \* "idle" | "done"
  scratchOrgIds,           \* the ids the running deleteScratchOrg was given
  deleted,                 \* ids whose active scratch org has been deleted
  deleteResult,            \* "none" | "resolved" | "rejected"
  \* ---- createScratchOrg (SpecCreate) ----
  pcCreate,                \* the step createScratchOrg is about to take
  createArgs,              \* id and adminEmail of the call
  scratchOrg,              \* the ScratchOrg object under construction
  passwordData,            \* what PasswordGenerateImpl.exec returned
  createResult,            \* what createScratchOrg handed to its caller
  \* ---- getScratchOrgRecordId (SpecRecordId) ----
  pcRec,                   \* "idle" | "query" | "done"
  scratchOrgs,             \* the batch: the caller's ScratchOrg objects
  passedIds,               \* the org ids of the batch as the caller passed them
  orgInfos,                \* the ScratchOrgInfo records of the DevHub
  queryIds,                \* the ids in the IN ( ... ) list of the query
  queries,                 \* hubConn.query calls issued by the call
  recResult,               \* what getScratchOrgRecordId handed to its caller
  \* ---- PoolListImpl.execute, step by step (SpecExecute) ----
  pcExec,                  \* "idle" | "detecting" | "querying"
  execArgs,                \* the constructor arguments of the running execute
  detection,               \* the process: "unchecked" | "checked" | "failed"
  execDetection,           \* this execute: "pending" | "completed" | "failed"
  poolQueries,             \* getScratchOrgsByTag calls made by this execute
  execResult,              \* what execute handed to its caller
  execsDone                \* executes ended in the process

prereqVars == <<isPrerequisiteChecked, isPrerequisiteMet, describeResult, pcCheck,
                calls, describeCalls, describeReturns, lastCheck, everFailed,
                everNotMet, everSucceeded>>
retryVars  == <<attempts, errors>>
opVars     == <<op, pcOp, remoteCalls, opResult, opsDone>>
listVars   == <<isNewVersionCompatible, listFlags, listArgs, scratchOrgList, output, pcList>>
fetchVars  == <<pcFetch, fetched, handed, assignedAtRead, transitions>>
setVars    == <<pcSet, soInfoArg, updatePlan, updateCalls, setResult>>
deleteVars == <<pcDelete, scratchOrgIds, deleted, deleteResult>>
createVars == <<pcCreate, createArgs, scratchOrg, passwordData, createResult>>
recVars    == <<pcRec, scratchOrgs, passedIds, orgInfos, queryIds, queries, recResult>>
execVars   == <<pcExec, execArgs, detection, execDetection, poolQueries, execResult,
                execsDone>>
vars == <<prereqVars, retryVars, opVars, store, listVars, fetchVars, setVars,
          deleteVars, createVars, recVars, execVars>>

-----------------------------------------------------------------------------
(* Values shared by the sections                                           *)

Null == "<null>"          \* null / undefined / an absent field
NoError == "<none>"

\* Errors a remote call (jsforce) can throw; the message identifies the error.
RemoteErrors == {"ECONNRESET", "REQUEST_LIMIT_EXCEEDED"}

-----------------------------------------------------------------------------
(* async-retry                                                             *)

\* { retries: 3, ... }: the number of retries after the first attempt.
Retries == 3

\* Upper bounds of the model (not program constants).
MaxCalls == 3             \* checkForPrerequisites calls per process
MaxExecutes == 3          \* PoolListImpl.execute calls per process
MaxOps == 2               \* retry-wrapped operations run one after another

\* async-retry runs the first attempt and then retries while retries are left:
\* op.retry(err) shifts one of the `retries` timeouts per failed attempt.
RetryLeft_Always(n) == TRUE
RetryLeft_TwoRetries(n) == n < Retries
RetryLeft(n) == n < Retries + 1

RECURSIVE MainErrorFrom(_, _, _, _)
MainErrorFrom(errs, i, main, mainCount) ==
  IF i > Len(errs) THEN main
  ELSE LET c == Cardinality({j \in 1..i : errs[j] = errs[i]})
       IN  IF c >= mainCount
             THEN MainErrorFrom(errs, i + 1, errs[i], c)
             ELSE MainErrorFrom(errs, i + 1, main, mainCount)

\* op.mainError(): the error whose message was thrown most often, the latest
\* one on a tie; async-retry rejects with it when no retry is left.
MainError(errs) == MainErrorFrom(errs, 1, NoError, 0)

-----------------------------------------------------------------------------
(* PreRequisiteCheck                                                       *)

\* let expectedValues = ["In Progress", "Available", "Allocate", "Assigned"]
expectedValues == <<"In Progress", "Available", "Allocate", "Assigned">>

\* Picklist values a DevHub may define for Allocation_status__c.
PicklistUniverse == expectedValues \o <<"Legacy">>

\* Field names a describe of ScratchOrgInfo may list.
FieldNames == {"SfdxAuthUrl__c", "Allocation_status__c", "Pooltag__c"}

Range(s) == {s[i] : i \in DOMAIN s}

\* The picklist in which value i of the universe is absent, active or inactive.
PicklistOf(f) ==
  LET all == [i \in DOMAIN PicklistUniverse |->
                [value |-> PicklistUniverse[i], state |-> f[i]]]
      Present(e) == e.state # "absent"
      sel == SelectSeq(all, Present)
  IN  [i \in DOMAIN sel |-> [value |-> sel[i].value, active |-> sel[i].state = "active"]]

Picklists ==
  {PicklistOf(f) : f \in [DOMAIN PicklistUniverse -> {"absent", "active", "inactive"}]}

\* Field lists: every order of every subset of FieldNames.
FieldOrders ==
  {o \in UNION {[1..n -> FieldNames] : n \in 0..Cardinality(FieldNames)} :
     \A i, j \in DOMAIN o : i # j => o[i] # o[j]}

DescribedField(name, picklist) ==
  [name |-> name,
   picklistValues |-> IF name = "Allocation_status__c" THEN picklist ELSE <<>>]

Schemas ==
  {[i \in DOMAIN o |-> DescribedField(o[i], p)] : o \in FieldOrders, p \in Picklists}

\* describeResult: undefined (no result object) or an object with a field list.
NoResult == [present |-> FALSE, fields |-> <<>>]
DescribeResults == {NoResult} \cup {[present |-> TRUE, fields |-> s] : s \in Schemas}

\* field.picklistValues.length === 4
PicklistLengthOk_Any(field) == TRUE
PicklistLengthOk(field) == Len(field.picklistValues) = 4

\* for (let picklistValue of field.picklistValues) if (picklistValue.active) push
ActiveValuesOf(field) ==
  LET IsActive(v) == v.active
      act == SelectSeq(field.picklistValues, IsActive)
  IN  [i \in DOMAIN act |-> act[i].value]

\* The loop over describeResult.fields, from field i on, with the values of
\* sfdxAuthUrlFieldExists and availableValues so far; the break ends the loop
\* at the first Allocation_status__c field that has four picklist values.
RECURSIVE ScanFields(_, _, _, _)
ScanFields(fields, i, sfdx, avail) ==
  IF i > Len(fields) THEN [sfdxAuthUrlFieldExists |-> sfdx, availableValues |-> avail]
  ELSE LET field == fields[i]
           sfdx2 == sfdx \/ field.name = "SfdxAuthUrl__c"
       IN  IF field.name = "Allocation_status__c" /\ PicklistLengthOk(field)
             THEN [sfdxAuthUrlFieldExists |-> sfdx2,
                   availableValues |-> avail \o ActiveValuesOf(field)]
             ELSE ScanFields(fields, i + 1, sfdx2, avail)

\* if (PreRequisiteCheck.describeResult) { for (const field of ...) ... }
ScanResult(res) ==
  IF res.present THEN ScanFields(res.fields, 1, FALSE, <<>>)
  ELSE [sfdxAuthUrlFieldExists |-> FALSE, availableValues |-> <<>>]

\* expectedValues.filter(item => !availableValues.includes(item)).length == 0
statusValuesAvailable(availableValues) ==
  LET Missing(item) == item \notin Range(availableValues)
  IN  Len(SelectSeq(expectedValues, Missing)) = 0

\* if (!PreRequisiteCheck.isPrerequisiteChecked) { ...describe... }
SkipDescribe_Never == FALSE
SkipDescribe == isPrerequisiteChecked

NoCheck == [kind |-> "none", payload |-> <<>>, error |-> NoError, notMet |-> FALSE,
            memoised |-> FALSE, describes |-> 0, afterFailure |-> FALSE,
            afterNotMet |-> FALSE, afterSuccess |-> FALSE]

\* Lines 68-74: the verdict. With the prerequisite not met the error is built
\* from describeResult.fields, which is a TypeError when describeResult is
\* undefined.
Verdict_AlwaysReturns(met, res) == [kind |-> "ok", payload |-> <<>>]
Verdict(met, res) ==
  IF met THEN [kind |-> "ok", payload |-> <<>>]
  ELSE IF res.present THEN [kind |-> "PreRequisiteCheckError", payload |-> res.fields]
  ELSE [kind |-> "TypeError", payload |-> <<>>]

\* The call ends: what it handed to its caller, and the history of the process.
EndCheck(kind, payload, error, notMet, memoised, describes) ==
  /\ lastCheck' = [kind |-> kind, payload |-> payload, error |-> error,
                   notMet |-> notMet, memoised |-> memoised, describes |-> describes,
                   afterFailure |-> everFailed, afterNotMet |-> everNotMet,
                   afterSuccess |-> everSucceeded]
  /\ calls' = calls + 1
  /\ everFailed' = (everFailed \/ kind # "ok")
  /\ everNotMet' = (everNotMet \/ notMet)
  /\ everSucceeded' = (everSucceeded \/ kind = "ok")
  /\ pcCheck' = "idle"

\* A rejected retry(...) leaves checkForPrerequisites before line 54
\* (isPrerequisiteChecked = true): the flag keeps its value.
CheckedAfterReject_Set(checked) == TRUE
CheckedAfterReject(checked) == checked

\* checkForPrerequisites when the verdict is memoised: no describe, the verdict.
CheckMemoised ==
  /\ pcCheck = "idle" /\ calls < MaxCalls
  /\ SkipDescribe
  /\ LET v == Verdict(isPrerequisiteMet, describeResult)
     IN  EndCheck(v.kind, v.payload, NoError, ~isPrerequisiteMet, TRUE, 0)
  /\ UNCHANGED <<isPrerequisiteChecked, isPrerequisiteMet, describeResult,
                 describeCalls, describeReturns, retryVars>>

\* checkForPrerequisites enters retry(...): the first describe is about to go out.
CheckBegin ==
  /\ pcCheck = "idle" /\ calls < MaxCalls
  /\ ~SkipDescribe
  /\ pcCheck' = "describe"
  /\ attempts' = 0
  /\ errors' = <<>>
  /\ UNCHANGED <<isPrerequisiteChecked, isPrerequisiteMet, describeResult, calls,
                 describeCalls, describeReturns, lastCheck, everFailed, everNotMet,
                 everSucceeded>>

\* conn.sobject("ScratchOrgInfo").describe() throws: retried while retries are
\* left, else the retry rejects and the call ends before line 54.
DescribeThrows ==
  /\ pcCheck = "describe"
  /\ \E e \in RemoteErrors :
       /\ describeCalls' = describeCalls + 1
       /\ attempts' = attempts + 1
       /\ errors' = Append(errors, e)
       /\ IF RetryLeft(attempts + 1)
            THEN UNCHANGED <<pcCheck, calls, lastCheck, everFailed, everNotMet,
                             everSucceeded>>
            ELSE EndCheck("RemoteError", <<>>, MainError(Append(errors, e)), FALSE,
                          FALSE, attempts + 1)
  /\ isPrerequisiteChecked' =
       IF RetryLeft(attempts + 1) THEN isPrerequisiteChecked
       ELSE CheckedAfterReject(isPrerequisiteChecked)
  /\ UNCHANGED <<isPrerequisiteMet, describeResult, describeReturns>>

\* describe() returns: the fields are scanned, the verdict memoised and raised.
DescribeReturns ==
  /\ pcCheck = "describe"
  /\ \E res \in DescribeResults :
       LET scan == ScanResult(res)
           met == \/ isPrerequisiteMet
                  \/ /\ scan.sfdxAuthUrlFieldExists
                     /\ statusValuesAvailable(scan.availableValues)
           v == Verdict(met, res)
       IN  /\ describeResult' = res
           /\ isPrerequisiteChecked' = TRUE
           /\ isPrerequisiteMet' = met
           /\ describeCalls' = describeCalls + 1
           /\ describeReturns' = describeReturns + 1
           /\ attempts' = attempts + 1
           /\ EndCheck(v.kind, v.payload, NoError, ~met, FALSE, attempts + 1)
  /\ UNCHANGED errors

-----------------------------------------------------------------------------
(* Initial values of each section, and the frames                          *)

PrereqInit ==
  /\ isPrerequisiteChecked = FALSE
  /\ isPrerequisiteMet = FALSE
  /\ describeResult = NoResult
  /\ pcCheck = "idle"
  /\ calls = 0
  /\ describeCalls = 0
  /\ describeReturns = 0
  /\ lastCheck = NoCheck
  /\ everFailed = FALSE
  /\ everNotMet = FALSE
  /\ everSucceeded = FALSE

RetryInit == attempts = 0 /\ errors = <<>>

Undefined == [shape |-> "undefined", records |-> <<>>]
NoOpResult == [kind |-> "none", value |-> Undefined, error |-> NoError,
               response |-> Undefined]

NoOp == [name |-> "none", isTooling |-> FALSE]

OpInit ==
  /\ op = NoOp
  /\ pcOp = "idle"
  /\ remoteCalls = 0
  /\ opResult = NoOpResult
  /\ opsDone = 0

NoArgs == [tag |-> Null, mypool |-> FALSE, allScratchOrgs |-> FALSE]

NoExecResult == [kind |-> "none", error |-> NoError, list |-> <<>>]

ExecIdle ==
  /\ pcExec = "idle"
  /\ execArgs = NoArgs
  /\ detection = "unchecked"
  /\ execDetection = "pending"
  /\ poolQueries = 0
  /\ execResult = NoExecResult
  /\ execsDone = 0
NoFlags == [tag |-> Null, mypool |-> FALSE, allscratchorgs |-> FALSE]
NoOutput == [total |-> 0, inuse |-> 0, unused |-> 0, inprovision |-> 0,
             scratchOrgDetails |-> <<>>]

ListIdle ==
  /\ listFlags = NoFlags
  /\ listArgs = NoArgs
  /\ scratchOrgList = <<>>
  /\ output = NoOutput
  /\ pcList = "idle"

FetchIdle ==
  /\ pcFetch = <<>>
  /\ fetched = <<>>
  /\ handed = <<>>
  /\ assignedAtRead = <<>>
  /\ transitions = <<>>

NoSoInfo == [Id |-> 0, Allocation_status__c |-> Null, batch |-> FALSE]
NoSetResult == [kind |-> "none", value |-> FALSE, outcome |-> "none"]

SetIdle ==
  /\ pcSet = "idle"
  /\ soInfoArg = NoSoInfo
  /\ updatePlan = <<>>
  /\ updateCalls = 0
  /\ setResult = NoSetResult

DeleteIdle ==
  /\ pcDelete = "idle"
  /\ scratchOrgIds = {}
  /\ deleted = {}
  /\ deleteResult = "none"

NoCreateArgs == [id |-> 0, adminEmail |-> Null]
NoScratchOrg == [alias |-> Null, orgId |-> Null, username |-> Null,
                 signupEmail |-> Null, loginURL |-> Null, password |-> Null,
                 sfdxAuthUrl |-> Null]
NoPasswordData == [returned |-> FALSE, present |-> FALSE, password |-> Null]
NoCreateResult == [kind |-> "none", error |-> NoError, value |-> NoScratchOrg,
                   step |-> "none", thrown |-> NoError]

CreateIdle ==
  /\ pcCreate = "idle"
  /\ createArgs = NoCreateArgs
  /\ scratchOrg = NoScratchOrg
  /\ passwordData = NoPasswordData
  /\ createResult = NoCreateResult

NoRecResult == [kind |-> "none", error |-> NoError]

RecIdle ==
  /\ pcRec = "idle"
  /\ scratchOrgs = <<>>
  /\ passedIds = <<>>
  /\ orgInfos = {}
  /\ queryIds = <<>>
  /\ queries = 0
  /\ recResult = NoRecResult

-----------------------------------------------------------------------------
(* SpecPrereq: checkForPrerequisites, call after call, in one process      *)

InitPrereq ==
  /\ PrereqInit /\ RetryInit /\ OpInit /\ ListIdle /\ FetchIdle
  /\ SetIdle /\ DeleteIdle /\ CreateIdle /\ RecIdle /\ ExecIdle
  /\ store = <<>>
  /\ isNewVersionCompatible = FALSE

NextPrereq ==
  /\ \/ CheckMemoised
     \/ CheckBegin
     \/ DescribeThrows
     \/ DescribeReturns
  /\ UNCHANGED <<opVars, store, listVars, fetchVars, setVars, deleteVars, createVars, recVars, execVars>>

SpecPrereq == InitPrereq /\ [][NextPrereq]_vars

-----------------------------------------------------------------------------
(* Properties of the prerequisite check (SpecPrereq)                       *)

ExpectedSet == Range(expectedValues)

\* A field named SfdxAuthUrl__c exists, wherever it stands in the list.
HasAuthUrlField(fields) == \E i \in DOMAIN fields : fields[i].name = "SfdxAuthUrl__c"

\* The active picklist values of Allocation_status__c (none when the field is absent).
ActivePicklist(fields) ==
  {v \in [value : Range(PicklistUniverse), active : {TRUE}] :
     \E i \in DOMAIN fields :
       /\ fields[i].name = "Allocation_status__c"
       /\ v \in Range(fields[i].picklistValues)}

ActiveSet(fields) == {v.value : v \in ActivePicklist(fields)}

SchemaSatisfies(fields) == HasAuthUrlField(fields) /\ ActiveSet(fields) = ExpectedSet

FailureKinds == {"PreRequisiteCheckError", "TypeError", "RemoteError"}

\* C4 (as stated): the describe of ScratchOrgInfo is issued at most once in
\* the process, whatever the describe calls answer.
C4_DescribeIssuedAtMostOnce == describeCalls <= 1

\* C4 (amended): at most one describe returns in the process and, once one has
\* returned, no later call issues a describe; only a describe that threw is
\* issued again.
C4_OneDescribeReturns ==
  /\ describeReturns <= 1
  /\ isPrerequisiteChecked => pcCheck = "idle"
  /\ (calls > 0 /\ lastCheck.memoised) => lastCheck.describes = 0

\* Two calls have ended and exactly one describe went out.
C4_Witness == calls = 2 /\ describeCalls = 1 /\ lastCheck.memoised

\* C5: after a describe that returned a schema, isPrerequisiteMet is true
\* exactly when SfdxAuthUrl__c exists and the active picklist values of
\* Allocation_status__c are the four expected ones, in any order of the fields.
C5_MetIffSchemaSatisfies ==
  (isPrerequisiteChecked /\ describeResult.present)
    => (isPrerequisiteMet <=> SchemaSatisfies(describeResult.fields))

\* C6: the check fails whenever the number of active picklist values of
\* Allocation_status__c differs from 4 and whenever one of the four expected
\* values is not active.
C6_FailsOnWrongPicklist ==
  (/\ isPrerequisiteChecked /\ describeResult.present /\ pcCheck = "idle"
   /\ \/ Cardinality(ActivePicklist(describeResult.fields)) # 4
      \/ ~(ExpectedSet \subseteq ActiveSet(describeResult.fields)))
    => (~isPrerequisiteMet /\ lastCheck.kind = "PreRequisiteCheckError")

\* The four expected values are active, and a fifth one with them: rejected.
C6_Witness ==
  /\ isPrerequisiteChecked /\ describeResult.present /\ pcCheck = "idle"
  /\ HasAuthUrlField(describeResult.fields)
  /\ ExpectedSet \subseteq ActiveSet(describeResult.fields)
  /\ Cardinality(ActivePicklist(describeResult.fields)) = 5
  /\ lastCheck.kind = "PreRequisiteCheckError"

\* C7: a call that finds the prerequisite not met ends with a
\* PreRequisiteCheckError carrying the field list of the describe result, also
\* when the describe returned no result object.
C7_NotMetRaisesPreRequisiteCheckError ==
  (calls > 0 /\ lastCheck.notMet)
    => (lastCheck.kind = "PreRequisiteCheckError"
        /\ lastCheck.payload = describeResult.fields)

\* C8 (as stated): once a call has failed every later call fails, and once a
\* call has succeeded every later call succeeds without a remote call.
C8_FailClosedAfterAnyFailure ==
  /\ (calls > 0 /\ lastCheck.afterFailure) => lastCheck.kind \in FailureKinds
  /\ (calls > 0 /\ lastCheck.afterSuccess)
       => (lastCheck.kind = "ok" /\ lastCheck.describes = 0)

\* C8 (amended): once a call has failed with the verdict "not met" every later
\* call fails, and once a call has succeeded every later call succeeds, both
\* without a remote call; a call that failed because every describe threw
\* memoises nothing.
C8_FailClosedAfterVerdict ==
  /\ (calls > 0 /\ lastCheck.afterNotMet)
       => (lastCheck.kind \in FailureKinds /\ lastCheck.describes = 0)
  /\ (calls > 0 /\ lastCheck.afterSuccess)
       => (lastCheck.kind = "ok" /\ lastCheck.describes = 0)
  /\ (everNotMet \/ everSucceeded) => isPrerequisiteChecked
  /\ ~(everNotMet /\ everSucceeded)

\* A call fails on the memoised verdict of an earlier call.
C8_Witness ==
  /\ calls >= 2 /\ lastCheck.afterNotMet /\ lastCheck.memoised
  /\ lastCheck.kind = "PreRequisiteCheckError"

\* C29: a call whose describe throws on every attempt surfaces one of the
\* thrown errors after the last attempt and leaves isPrerequisiteChecked and
\* isPrerequisiteMet false and describeResult as it was; the next call of the
\* process enters the describe again instead of answering from a verdict.
C29_ThrowingDescribeMemoisesNothing ==
  [][/\ (calls' = calls + 1 /\ lastCheck'.kind = "RemoteError") =>
          /\ lastCheck'.describes = Retries + 1
          /\ lastCheck'.error \in RemoteErrors
          /\ ~isPrerequisiteChecked /\ ~isPrerequisiteChecked'
          /\ ~isPrerequisiteMet /\ ~isPrerequisiteMet'
          /\ describeResult' = describeResult
     /\ (pcCheck = "idle" /\ calls > 0 /\ lastCheck.kind = "RemoteError") =>
          /\ pcCheck' = "describe"
          /\ calls' = calls /\ describeCalls' = describeCalls]_vars

\* A call ended on the error of its last describe, and the next call has
\* sent a describe of its own.
C29_Witness ==
  /\ calls = 1 /\ lastCheck.kind = "RemoteError"
  /\ pcCheck = "describe" /\ attempts = 1
  /\ describeCalls = Retries + 2
  /\ ~isPrerequisiteChecked /\ ~isPrerequisiteMet

-----------------------------------------------------------------------------
(* SpecRetry: the retry-wrapped remote operations, one at a time           *)

\* The operations that wrap one remote call in retry(..., { retries: 3, ... }).
RetryOps ==
  {[name |-> "QueryHelper.query", isTooling |-> t] : t \in BOOLEAN} \cup
  {[name |-> n, isTooling |-> FALSE] :
     n \in {"checkForPrerequisites", "getScratchOrgsByTag", "getScratchOrgRecordId",
            "deleteScratchOrg"}}

\* What the remote call of an operation may answer when it does not throw.
RecordLists == {<<>>, <<"rec1">>, <<"rec1", "rec2">>}
Responses == {[shape |-> "QueryResult", records |-> r] : r \in RecordLists}

\* What the retried callback returns from the answer of its remote call:
\* QueryHelper.query the records of the result, the two ScratchOrgUtils
\* queries the result itself, the describe and the delete nothing.
CallbackReturn_WholeResult(o, response) == response
CallbackReturn(o, response) ==
  CASE o.name = "QueryHelper.query" -> [shape |-> "array", records |-> response.records]
    [] o.name \in {"getScratchOrgsByTag", "getScratchOrgRecordId"} -> response
    [] OTHER -> Undefined

\* A caller starts an operation; retry(...) is about to make its first attempt.
OpBegin ==
  /\ pcOp = "idle" /\ opsDone < MaxOps
  /\ \E o \in RetryOps : op' = o
  /\ pcOp' = "running"
  /\ attempts' = 0
  /\ errors' = <<>>
  /\ remoteCalls' = 0
  /\ opResult' = NoOpResult
  /\ UNCHANGED opsDone

\* The remote call of the running attempt throws: the callback throws it on,
\* and retry(...) runs the callback again or rejects with op.mainError().
RemoteThrows ==
  /\ pcOp = "running"
  /\ \E e \in RemoteErrors :
       /\ remoteCalls' = remoteCalls + 1
       /\ attempts' = attempts + 1
       /\ errors' = Append(errors, e)
       /\ IF RetryLeft(attempts + 1)
            THEN UNCHANGED <<pcOp, opResult, opsDone>>
            ELSE /\ pcOp' = "idle"
                 /\ opsDone' = opsDone + 1
                 /\ opResult' = [kind |-> "rejected", value |-> Undefined,
                                 error |-> MainError(Append(errors, e)),
                                 response |-> Undefined]
  /\ UNCHANGED op

\* The remote call of the running attempt returns: retry(...) resolves with
\* what the callback returns.
RemoteReturns ==
  /\ pcOp = "running"
  /\ \E response \in Responses :
       /\ remoteCalls' = remoteCalls + 1
       /\ attempts' = attempts + 1
       /\ pcOp' = "idle"
       /\ opsDone' = opsDone + 1
       /\ opResult' = [kind |-> "resolved", value |-> CallbackReturn(op, response),
                       error |-> NoError, response |-> response]
  /\ UNCHANGED <<op, errors>>

InitRetry ==
  /\ PrereqInit /\ RetryInit /\ OpInit /\ ListIdle /\ FetchIdle
  /\ SetIdle /\ DeleteIdle /\ CreateIdle /\ RecIdle /\ ExecIdle
  /\ store = <<>>
  /\ isNewVersionCompatible = FALSE

NextRetry ==
  /\ \/ OpBegin
     \/ RemoteThrows
     \/ RemoteReturns
  /\ UNCHANGED <<prereqVars, store, listVars, fetchVars, setVars, deleteVars,
               createVars, recVars, execVars>>

SpecRetry == InitRetry /\ [][NextRetry]_vars

\* The awaited remote call of a running attempt eventually settles: it
\* returns or it throws. Nothing is assumed of a caller starting operations.
RemoteSettles ==
  /\ RemoteThrows \/ RemoteReturns
  /\ UNCHANGED <<prereqVars, store, listVars, fetchVars, setVars, deleteVars,
               createVars, recVars, execVars>>

SpecRetryFair == SpecRetry /\ WF_vars(RemoteSettles)

\* C9 (as stated): a retry-wrapped remote call makes at most 3 attempts, and
\* exactly 3 remote calls when every attempt throws.
C9_ThreeAttempts ==
  /\ remoteCalls <= 3
  /\ (pcOp = "idle" /\ opResult.kind = "rejected") => remoteCalls = 3

\* C9 (amended): a retry-wrapped remote call makes at most 4 attempts, the
\* first one and 3 retries, and exactly 4 remote calls when every attempt
\* throws.
C9_FirstAttemptAndThreeRetries ==
  /\ remoteCalls <= Retries + 1
  /\ remoteCalls = attempts
  /\ (pcOp = "idle" /\ opResult.kind = "rejected")
       => (remoteCalls = Retries + 1 /\ Len(errors) = Retries + 1)

\* Every attempt of a delete threw and the error surfaced.
C9_Witness ==
  /\ pcOp = "idle" /\ op.name = "deleteScratchOrg" /\ opResult.kind = "rejected"
  /\ remoteCalls = 4

\* C10: QueryHelper.query retries on every kind of error, returns the records
\* of the first attempt that succeeds, and surfaces one of the errors the
\* remote call threw, as thrown, when all attempts fail.
C10_QueryRetriesAndSurfaces ==
  (op.name = "QueryHelper.query") =>
    /\ pcOp = "running" => Len(errors) = attempts /\ attempts <= Retries
    /\ (pcOp = "idle" /\ opResult.kind = "resolved") =>
         /\ opResult.value = [shape |-> "array", records |-> opResult.response.records]
         /\ attempts = Len(errors) + 1
    /\ (pcOp = "idle" /\ opResult.kind = "rejected") =>
         /\ opResult.error \in Range(errors)
         /\ opResult.error \in RemoteErrors
         /\ Len(errors) = Retries + 1

\* A query that succeeds on its third attempt after two different errors.
C10_Witness ==
  /\ op.name = "QueryHelper.query" /\ pcOp = "idle" /\ opResult.kind = "resolved"
  /\ Range(errors) = RemoteErrors /\ attempts = 3
  /\ opResult.value.records = <<"rec1", "rec2">>

\* C27: every retry-wrapped operation terminates when its remote calls
\* settle: a running operation eventually resolves with a result or rejects
\* with an error, after at most Retries + 1 remote calls; an operation that
\* has used its Retries + 1 attempts is not running any more.
C27_RetryTerminates ==
  /\ [](/\ remoteCalls <= Retries + 1
        /\ remoteCalls = attempts
        /\ (attempts = Retries + 1) => pcOp = "idle")
  /\ (pcOp = "running") ~>
       (pcOp = "idle" /\ opResult.kind \in {"resolved", "rejected"})

\* The pool query threw on every attempt and the operation has ended with
\* an error; it is not running any more.
C27_Witness ==
  /\ pcOp = "idle" /\ op.name = "getScratchOrgsByTag"
  /\ opResult.kind = "rejected" /\ opResult.error \in RemoteErrors
  /\ attempts = Retries + 1 /\ opsDone >= 1

-----------------------------------------------------------------------------
(* The ScratchOrgInfo store and the pool query                             *)

HubUsername == "hub@devhub"       \* hubOrg.getUsername()

TagValues == {"core", "dev", Null}
StatusValues == {"Active", "Deleted"}
AllocationValues == {"Assigned", "Available", "In Progress", "Allocate", "", Null}
CreatorValues == {HubUsername, "other@devhub"}

\* !x of JavaScript for a field value.
Falsy(x) == x \in {Null, ""}

\* WHERE Pooltag__c = '${tag}' when a tag is given, else Pooltag__c != null.
TagClause_AnyTag(r, tag) == r.Pooltag__c # Null
TagClause(r, tag) ==
  IF tag # Null THEN r.Pooltag__c = tag ELSE r.Pooltag__c # Null

\* AND Status = 'Active'
ActiveClause(r) == r.Status = "Active"

\* if (isMyPool) AND createdby.username = '${hubOrg.getUsername()}'
MyPoolClause(r, isMyPool) == isMyPool => r.CreatedBy = HubUsername

\* if (unAssigned) AND ( Allocation_status__c ='Available' OR
\*                       Allocation_status__c = 'In Progress' )
UnassignedClause_Dropped(r, unAssigned) == TRUE
UnassignedClause_GatedOnMode(r, unAssigned) ==
  (unAssigned /\ isNewVersionCompatible)
    => r.Allocation_status__c \in {"Available", "In Progress"}
UnassignedClause(r, unAssigned) ==
  unAssigned => r.Allocation_status__c \in {"Available", "In Progress"}

\* ORDER BY CreatedDate ASC
RECURSIVE OrderByCreatedDate_ByIdDesc(_)
OrderByCreatedDate_ByIdDesc(S) ==
  IF S = {} THEN <<>>
  ELSE LET first == CHOOSE r \in S : \A o \in S : r.Id >= o.Id
       IN  <<first>> \o OrderByCreatedDate_ByIdDesc(S \ {first})

RECURSIVE OrderByCreatedDate(_)
OrderByCreatedDate(S) ==
  IF S = {} THEN <<>>
  ELSE LET first == CHOOSE r \in S : \A o \in S : r.CreatedDate <= o.CreatedDate
       IN  <<first>> \o OrderByCreatedDate(S \ {first})

\* results.records of the query getScratchOrgsByTag sends, run on store st.
getScratchOrgsByTag(st, tag, isMyPool, unAssigned) ==
  OrderByCreatedDate({r \in Range(st) :
                        /\ TagClause(r, tag)
                        /\ ActiveClause(r)
                        /\ MyPoolClause(r, isMyPool)
                        /\ UnassignedClause(r, unAssigned)})

-----------------------------------------------------------------------------
(* SpecList: PoolListImpl.execute and the pool:list command                *)

ListIds == {1, 2}
PasswordOf == <<"pw1", "pw2", "pw3">>
OrgIdOf == <<"00D000000000001", "00D000000000002", "00D000000000003">>

DateOrders(S) == {f \in [S -> S] : \A a, b \in S : a # b => f[a] # f[b]}

\* The stores the list command may find: every field of every record free,
\* the creation dates all different.
ListStores ==
  {[id \in ListIds |->
      [Id |-> id, Pooltag__c |-> t[id], Status |-> st[id],
       Allocation_status__c |-> a[id], CreatedBy |-> c[id], CreatedDate |-> d[id],
       Password__c |-> PasswordOf[id], ScratchOrg |-> OrgIdOf[id]]] :
     t \in [ListIds -> TagValues], st \in [ListIds -> StatusValues],
     a \in [ListIds -> AllocationValues], c \in [ListIds -> CreatorValues],
     d \in DateOrders(ListIds)}

\* (isNewVersionCompatible && status === "Available") ||
\* (!isNewVersionCompatible && !status)
IsAvailable_LegacyRule(alloc, newCompatible) == Falsy(alloc)
IsAvailable_NewRule(alloc, newCompatible) == alloc = "Available"
IsAvailable(alloc, newCompatible) ==
  \/ newCompatible /\ alloc = "Available"
  \/ ~newCompatible /\ Falsy(alloc)

\* soDetail.status, lines 43-54 of PoolListImpl.execute
DeriveStatus_RawValue(alloc, newCompatible) ==
  IF alloc = "Assigned" THEN "In use" ELSE alloc
DeriveStatus(alloc, newCompatible) ==
  IF alloc = "Assigned" THEN "In use"
  ELSE IF IsAvailable(alloc, newCompatible) THEN "Available"
  ELSE "Provisioning in progress"

\* let soDetail: ScratchOrg = {}; ... for one element of results.records
SoDetail(element, newCompatible) ==
  [tag |-> element.Pooltag__c,
   orgId |-> element.ScratchOrg,
   password |-> element.Password__c,
   status |-> DeriveStatus(element.Allocation_status__c, newCompatible)]

\* PoolListImpl.execute() of new PoolListImpl(hubOrg, tag, mypool, allScratchOrgs)
PoolListImplExecute(st, newCompatible, tag, mypool, allScratchOrgs) ==
  LET records == getScratchOrgsByTag(st, tag, mypool, ~allScratchOrgs)
  IN  [i \in DOMAIN records |-> SoDetail(records[i], newCompatible)]

\* A caller runs PoolListImpl.execute with arguments of its own.
Execute ==
  /\ pcList = "idle"
  /\ \E tag \in {"core", Null}, mypool \in BOOLEAN, allScratchOrgs \in BOOLEAN :
       /\ listArgs' = [tag |-> tag, mypool |-> mypool, allScratchOrgs |-> allScratchOrgs]
       /\ scratchOrgList' =
            PoolListImplExecute(store, isNewVersionCompatible, tag, mypool, allScratchOrgs)
  /\ pcList' = "executed"
  /\ UNCHANGED <<store, isNewVersionCompatible, listFlags, output>>

\* delete element.password
Absent == "<absent>"
WithoutPassword_Keeps(element) == element
WithoutPassword(element) == [element EXCEPT !.password = Absent]

\* result.filter((element) => element.status === status).length
CountStatus(result, status) ==
  Cardinality({i \in DOMAIN result : result[i].status = status})

\* List.run(): the pool:list command with its flags. The PoolListImpl is built
\* as new poolListImpl(this.hubOrg, this.flags.tag, this.flags.allscratchorgs):
\* the third argument lands in the mypool parameter and allScratchOrgs is
\* left undefined.
ListRun ==
  /\ pcList = "idle"
  /\ \E tag \in {"core", Null}, mypool \in BOOLEAN, allscratchorgs \in BOOLEAN :
       LET executed == PoolListImplExecute(store, isNewVersionCompatible, tag,
                                           allscratchorgs, FALSE)
           result == IF ~mypool /\ Len(executed) > 0
                       THEN [i \in DOMAIN executed |-> WithoutPassword(executed[i])]
                       ELSE executed
           scratchOrgInuse == CountStatus(result, "In use")
           scratchOrgNotInuse == CountStatus(result, "Available")
           scratchOrgInProvision == CountStatus(result, "Provisioning in progress")
       IN  /\ listFlags' = [tag |-> tag, mypool |-> mypool,
                            allscratchorgs |-> allscratchorgs]
           /\ listArgs' = [tag |-> tag, mypool |-> allscratchorgs,
                           allScratchOrgs |-> FALSE]
           /\ scratchOrgList' = executed
           /\ output' = [total |-> scratchOrgInuse + scratchOrgNotInuse
                                     + scratchOrgInProvision,
                         inuse |-> scratchOrgInuse,
                         unused |-> scratchOrgNotInuse,
                         inprovision |-> scratchOrgInProvision,
                         scratchOrgDetails |-> result]
  /\ pcList' = "listed"
  /\ UNCHANGED <<store, isNewVersionCompatible>>

InitList ==
  /\ PrereqInit /\ RetryInit /\ OpInit /\ ListIdle /\ FetchIdle
  /\ SetIdle /\ DeleteIdle /\ CreateIdle /\ RecIdle /\ ExecIdle
  /\ store \in ListStores
  /\ isNewVersionCompatible \in BOOLEAN

NextList ==
  /\ \/ Execute
     \/ ListRun
  /\ UNCHANGED <<prereqVars, retryVars, opVars, fetchVars, setVars, deleteVars,
               createVars, recVars, execVars>>

SpecList == InitList /\ [][NextList]_vars

\* The records the query of the last execute returned.
LastRecords ==
  getScratchOrgsByTag(store, listArgs.tag, listArgs.mypool, ~listArgs.allScratchOrgs)

\* C2: in new-compatibility mode each returned record gets the status
\* Assigned -> In use, Available -> Available, In Progress and every other
\* value (empty included) -> Provisioning in progress.
C2_NewModeStatus ==
  (pcList # "idle" /\ isNewVersionCompatible) =>
    /\ Len(scratchOrgList) = Len(LastRecords)
    /\ \A i \in DOMAIN LastRecords :
         scratchOrgList[i].status =
           CASE LastRecords[i].Allocation_status__c = "Assigned" -> "In use"
             [] LastRecords[i].Allocation_status__c = "Available" -> "Available"
             [] OTHER -> "Provisioning in progress"

\* New mode: an Available record and a record without a status are listed.
C2_Witness ==
  /\ pcList = "executed" /\ isNewVersionCompatible /\ Len(scratchOrgList) = 2
  /\ {LastRecords[i].Allocation_status__c : i \in 1..2} = {"Available", Null}
  /\ {scratchOrgList[i].status : i \in 1..2} = {"Available", "Provisioning in progress"}

\* C3: in legacy mode each returned record gets the status empty/absent ->
\* Available, Assigned -> In use, every other non-empty value (Available and
\* In Progress included) -> Provisioning in progress.
C3_LegacyModeStatus ==
  (pcList # "idle" /\ ~isNewVersionCompatible) =>
    /\ Len(scratchOrgList) = Len(LastRecords)
    /\ \A i \in DOMAIN LastRecords :
         scratchOrgList[i].status =
           CASE LastRecords[i].Allocation_status__c \in {Null, ""} -> "Available"
             [] LastRecords[i].Allocation_status__c = "Assigned" -> "In use"
             [] OTHER -> "Provisioning in progress"

\* Legacy mode: an Available record and a record with an empty status are listed.
C3_Witness ==
  /\ pcList = "executed" /\ ~isNewVersionCompatible /\ Len(scratchOrgList) = 2
  /\ {LastRecords[i].Allocation_status__c : i \in 1..2} = {"Available", Null}
  /\ \A i \in 1..2 :
       scratchOrgList[i].status =
         IF LastRecords[i].Allocation_status__c = Null THEN "Available"
         ELSE "Provisioning in progress"

\* The orgs of the records the last execute returned.
ReturnedOrgs == {scratchOrgList[i].orgId : i \in DOMAIN scratchOrgList}

\* The record is Active and carries the tag asked for (any tag when none is).
MatchesTag(r) ==
  /\ r.Status = "Active"
  /\ IF listArgs.tag # Null THEN r.Pooltag__c = listArgs.tag
     ELSE r.Pooltag__c # Null

\* The record passes the ownership restriction of the last execute.
MatchesOwner(r) == listArgs.mypool => r.CreatedBy = HubUsername

\* C15: with a tag, only records of that tag are returned; without one, the
\* records of any non-null tag; in both cases only Active records, and all
\* of them when no other filter is asked for.
C15_TagFilter ==
  pcList # "idle" =>
    /\ Len(scratchOrgList) = Cardinality(ReturnedOrgs)
    /\ \A r \in Range(store) : r.ScratchOrg \in ReturnedOrgs => MatchesTag(r)
    /\ (~listArgs.mypool /\ listArgs.allScratchOrgs) =>
         ReturnedOrgs = {r.ScratchOrg : r \in {x \in Range(store) : MatchesTag(x)}}

\* Tag "core" asked for: the Active record of tag "dev" is left out, the one
\* of tag "core" returned.
C15_Witness ==
  /\ pcList = "executed" /\ listArgs.tag = "core"
  /\ ~listArgs.mypool /\ listArgs.allScratchOrgs
  /\ \E r \in Range(store) : r.Status = "Active" /\ r.Pooltag__c = "dev"
  /\ Len(scratchOrgList) = 1 /\ scratchOrgList[1].tag = "core"

ListedOrgs ==
  {output.scratchOrgDetails[i].orgId : i \in DOMAIN output.scratchOrgDetails}

\* The record is Active and carries the tag the command was given.
MatchesFlagTag(r) ==
  /\ r.Status = "Active"
  /\ IF listFlags.tag # Null THEN r.Pooltag__c = listFlags.tag
     ELSE r.Pooltag__c # Null

\* C17: with the all-orgs flag the list command does not apply the unassigned
\* filter, so the Assigned records of the pool are in the output as In use;
\* without the flag the filter is applied.
C17_AllOrgsFlagIncludesAssigned ==
  pcList = "listed" =>
    IF listFlags.allscratchorgs
      THEN \A r \in Range(store) :
             (/\ MatchesFlagTag(r) /\ r.CreatedBy = HubUsername
              /\ r.Allocation_status__c = "Assigned")
               => \E i \in DOMAIN output.scratchOrgDetails :
                    /\ output.scratchOrgDetails[i].orgId = r.ScratchOrg
                    /\ output.scratchOrgDetails[i].status = "In use"
      ELSE \A r \in Range(store) :
             r.ScratchOrg \in ListedOrgs
               => r.Allocation_status__c \in {"Available", "In Progress"}

\* C18: the list command restricts the output to the records created by the
\* calling identity exactly when the my-pool flag is given, whatever the
\* all-orgs flag.
C18_OwnershipExactlyWhenMyPool ==
  pcList = "listed" =>
    IF listFlags.mypool
      THEN \A r \in Range(store) :
             r.ScratchOrg \in ListedOrgs => r.CreatedBy = HubUsername
      ELSE \A r \in Range(store) :
             (/\ MatchesFlagTag(r)
              /\ r.Allocation_status__c \in {"Available", "In Progress"})
               => r.ScratchOrg \in ListedOrgs

\* C19: in the output of the list command no record has a password when
\* mypool is false, and every record has the password of its store record
\* when mypool is true.
C19_PasswordOnlyForMyPool ==
  pcList = "listed" =>
    \A i \in DOMAIN output.scratchOrgDetails :
      IF listFlags.mypool
        THEN \E r \in Range(store) :
               /\ r.ScratchOrg = output.scratchOrgDetails[i].orgId
               /\ output.scratchOrgDetails[i].password = r.Password__c
        ELSE output.scratchOrgDetails[i].password = Absent

\* Without mypool two records are listed, both without their password.
C19_Witness ==
  /\ pcList = "listed" /\ ~listFlags.mypool
  /\ Len(output.scratchOrgDetails) = 2
  /\ \A i \in 1..2 : output.scratchOrgDetails[i].password = Absent
  /\ \A i \in 1..2 : scratchOrgList[i].orgId = output.scratchOrgDetails[i].orgId

\* The creation date of the record of an org.
CreatedDateOf(orgId) ==
  (CHOOSE r \in Range(store) : r.ScratchOrg = orgId).CreatedDate

\* C24: for every combination of tag, isMyPool and unassignedOnly the
\* records come back oldest first, and PoolListImpl.execute returns its list
\* in the same order.
C24_OldestFirst ==
  pcList # "idle" =>
    /\ \A i, j \in DOMAIN LastRecords :
         i < j => LastRecords[i].CreatedDate <= LastRecords[j].CreatedDate
    /\ Len(scratchOrgList) = Len(LastRecords)
    /\ \A i \in DOMAIN scratchOrgList : scratchOrgList[i].orgId = LastRecords[i].ScratchOrg
    /\ \A i, j \in DOMAIN scratchOrgList :
         i < j => CreatedDateOf(scratchOrgList[i].orgId)
                    <= CreatedDateOf(scratchOrgList[j].orgId)

\* Two records are returned, the record of the higher Id first because it
\* is the older one.
C24_Witness ==
  /\ pcList = "executed" /\ Len(scratchOrgList) = 2
  /\ scratchOrgList[1].orgId = OrgIdOf[2] /\ scratchOrgList[2].orgId = OrgIdOf[1]
  /\ store[2].CreatedDate < store[1].CreatedDate

StatusNames == {"In use", "Available", "Provisioning in progress"}

\* C28: in the output of the list command every record has one of the three
\* statuses, so total = inuse + unused + inprovision = the number of records
\* in scratchOrgDetails.
C28_CountsConsistent ==
  pcList = "listed" =>
    /\ \A i \in DOMAIN output.scratchOrgDetails :
         output.scratchOrgDetails[i].status \in StatusNames
    /\ output.total = output.inuse + output.unused + output.inprovision
    /\ output.total = Len(output.scratchOrgDetails)
    /\ output.inuse = Cardinality({i \in DOMAIN output.scratchOrgDetails :
                                     output.scratchOrgDetails[i].status = "In use"})
    /\ output.unused = Cardinality({i \in DOMAIN output.scratchOrgDetails :
                                      output.scratchOrgDetails[i].status = "Available"})

\* Two records are listed, one Available and one in provision.
C28_Witness ==
  /\ pcList = "listed" /\ output.total = 2
  /\ output.unused = 1 /\ output.inprovision = 1 /\ output.inuse = 0

-----------------------------------------------------------------------------
(* SpecScenario: the listing of a legacy pool of three records             *)

ScenarioIds == {1, 2, 3}

\* The allocation statuses of the three records: Assigned, Available, empty.
ScenarioStatuses == {"Assigned", "Available", ""}

\* The pool tagged "core" of the scenario: three Active records of the hub
\* user, one of each status, created in any order.
ScenarioStores ==
  {[id \in ScenarioIds |->
      [Id |-> id, Pooltag__c |-> "core", Status |-> "Active",
       Allocation_status__c |-> a[id], CreatedBy |-> HubUsername,
       CreatedDate |-> d[id], Password__c |-> PasswordOf[id],
       ScratchOrg |-> OrgIdOf[id]]] :
     a \in {f \in [ScenarioIds -> ScenarioStatuses] :
              \A x, y \in ScenarioIds : x # y => f[x] # f[y]},
     d \in DateOrders(ScenarioIds)}

InitScenario ==
  /\ PrereqInit /\ RetryInit /\ OpInit /\ ListIdle /\ FetchIdle
  /\ SetIdle /\ DeleteIdle /\ CreateIdle /\ RecIdle /\ ExecIdle
  /\ store \in ScenarioStores
  /\ isNewVersionCompatible = FALSE

SpecScenario == InitScenario /\ [][NextList]_vars

-----------------------------------------------------------------------------
(* SpecExecute: PoolListImpl.execute, await by await                       *)

\* await ScratchOrgUtils.checkForNewVersionCompatible(this.hubOrg) has no
\* try/catch around it: when it rejects, execute rejects at line 24.
AfterDetectionRejects_Swallowed == "querying"
AfterDetectionRejects == "idle"

\* The execute ends: what it handed to its caller.
EndExecute(kind, error, list) ==
  /\ execResult' = [kind |-> kind, error |-> error, list |-> list]
  /\ execsDone' = execsDone + 1

\* A caller runs execute(): line 24 is about to be awaited.
ExecBegin ==
  /\ pcExec = "idle" /\ execsDone < MaxExecutes
  /\ \E tag \in {"core", Null}, mypool \in BOOLEAN, allScratchOrgs \in BOOLEAN :
       execArgs' = [tag |-> tag, mypool |-> mypool, allScratchOrgs |-> allScratchOrgs]
  /\ pcExec' = "detecting"
  /\ execDetection' = "pending"
  /\ poolQueries' = 0
  /\ execResult' = NoExecResult
  /\ UNCHANGED <<isNewVersionCompatible, detection, execsDone>>

\* checkForNewVersionCompatible resolves: the first detection of the process
\* computes isNewVersionCompatible from the schema, a later one reuses it.
DetectCompletes ==
  /\ pcExec = "detecting" /\ detection # "failed"
  /\ IF detection = "unchecked"
       THEN \E mode \in BOOLEAN : isNewVersionCompatible' = mode
       ELSE UNCHANGED isNewVersionCompatible
  /\ detection' = "checked"
  /\ execDetection' = "completed"
  /\ pcExec' = "querying"
  /\ UNCHANGED <<execArgs, poolQueries, execResult, execsDone>>

\* checkForNewVersionCompatible rejects: the detection failed, now or in an
\* earlier operation of the process.
DetectFails ==
  /\ pcExec = "detecting" /\ detection # "checked"
  /\ \E e \in RemoteErrors :
       /\ detection' = "failed"
       /\ execDetection' = "failed"
       /\ pcExec' = AfterDetectionRejects
       /\ IF AfterDetectionRejects = "idle"
            THEN EndExecute("rejected", e, <<>>)
            ELSE UNCHANGED <<execResult, execsDone>>
  /\ UNCHANGED <<isNewVersionCompatible, execArgs, poolQueries>>

\* getScratchOrgsByTag rejects after its last attempt: execute rejects.
PoolQueryThrows ==
  /\ pcExec = "querying"
  /\ poolQueries' = poolQueries + 1
  /\ \E e \in RemoteErrors : EndExecute("rejected", e, <<>>)
  /\ pcExec' = "idle"
  /\ UNCHANGED <<isNewVersionCompatible, execArgs, detection, execDetection>>

\* getScratchOrgsByTag resolves: the list is built and returned.
PoolQueryReturns ==
  /\ pcExec = "querying"
  /\ poolQueries' = poolQueries + 1
  /\ EndExecute("returned", NoError,
                PoolListImplExecute(store, isNewVersionCompatible, execArgs.tag,
                                    execArgs.mypool, execArgs.allScratchOrgs))
  /\ pcExec' = "idle"
  /\ UNCHANGED <<isNewVersionCompatible, execArgs, detection, execDetection>>

InitExecute ==
  /\ PrereqInit /\ RetryInit /\ OpInit /\ ListIdle /\ FetchIdle
  /\ SetIdle /\ DeleteIdle /\ CreateIdle /\ RecIdle /\ ExecIdle
  /\ store \in ScenarioStores
  /\ isNewVersionCompatible = FALSE

NextExecute ==
  /\ \/ ExecBegin
     \/ DetectCompletes
     \/ DetectFails
     \/ PoolQueryThrows
     \/ PoolQueryReturns
  /\ UNCHANGED <<prereqVars, retryVars, opVars, store, listFlags, listArgs,
                 scratchOrgList, output, pcList, fetchVars, setVars, deleteVars,
                 createVars, recVars>>

SpecExecute == InitExecute /\ [][NextExecute]_vars

\* C26: in PoolListImpl.execute the pool query is issued only after the
\* detection of this execute has completed; when the detection fails the
\* execute makes no pool query and rejects without a list.
C26_DetectionBeforeQuery ==
  /\ (pcExec = "querying" \/ poolQueries > 0) => execDetection = "completed"
  /\ pcExec = "detecting" => (poolQueries = 0 /\ execResult = NoExecResult)
  /\ execDetection = "failed" =>
       /\ pcExec = "idle" /\ poolQueries = 0
       /\ execResult.kind = "rejected" /\ execResult.list = <<>>
  /\ execResult.kind = "returned" =>
       (execDetection = "completed" /\ poolQueries = 1)

\* Two executes of the process have ended on a failed detection, the second
\* one without a query and without a list.
C26_Witness ==
  /\ execsDone = 2 /\ pcExec = "idle" /\ detection = "failed"
  /\ execDetection = "failed" /\ poolQueries = 0
  /\ execResult.kind = "rejected" /\ execResult.error \in RemoteErrors

-----------------------------------------------------------------------------
(* SpecPool: concurrent fetchers over the shared store                     *)

NumFetchers == 2          \* concurrent fetch processes
NumPoolRecords == 2       \* records of the pool tagged "core"
FetchCount == 2           \* records one fetch asks for

Fetchers == 1..NumFetchers
PoolIds == 1..NumPoolRecords

\* The pools the fetchers may find: active records tagged "core", created by
\* the hub user in the order of their ids, in any allocation status.
PoolStores ==
  {[id \in PoolIds |->
      [Id |-> id, Pooltag__c |-> "core", Status |-> "Active",
       Allocation_status__c |-> a[id], CreatedBy |-> HubUsername, CreatedDate |-> id,
       Password__c |-> "pw", ScratchOrg |-> "00D"]] :
     a \in [PoolIds -> {"Available", "In Progress", "Allocate", "Assigned"}]}

\* What hubConn.sobject("ScratchOrgInfo").update(soInfo) may do: update the
\* record and report success, report a failure, or throw.
UpdateOutcomes == {"success", "failure", "throws"}

\* The store after a successful update(soInfo): the fields of soInfo are
\* written to the record of soInfo.Id, as given.
UpdateStore_DropsStatus(st, soInfo) ==
  [st EXCEPT ![soInfo.Id].Allocation_status__c = "undefined"]
UpdateStore(st, soInfo) ==
  [st EXCEPT ![soInfo.Id].Allocation_status__c = soInfo.Allocation_status__c]

\* What update(soInfo) answers when soInfo is an array of records: an array of
\* results, every one a success or one of them a failure.
ArrayOutcomes == {"array-success", "array-failure"}

\* What setScratchOrgInfo returns: false when the update throws (the catch),
\* else result.constructor !== Array ? result.success : true.
setScratchOrgInfoReturn(outcome) ==
  IF outcome = "throws" THEN FALSE
  ELSE IF outcome \in ArrayOutcomes THEN TRUE
  ELSE outcome = "success"

\* Fetch path, the read: the fetcher queries the pool of tag "core" with the
\* unassigned filter and selects up to FetchCount records, oldest first.
FetchRead(p) ==
  /\ pcFetch[p] = "start"
  /\ LET records == getScratchOrgsByTag(store, "core", FALSE, TRUE)
         selected == SubSeq(records, 1, IF Len(records) < FetchCount
                                          THEN Len(records) ELSE FetchCount)
     IN  /\ fetched' = [fetched EXCEPT ![p] = selected]
         /\ pcFetch' = [pcFetch EXCEPT ![p] = IF selected = <<>> THEN "done" ELSE "assign"]
  /\ assignedAtRead' =
       [assignedAtRead EXCEPT
          ![p] = {id \in DOMAIN store : store[id].Allocation_status__c = "Assigned"}]
  /\ UNCHANGED <<store, handed, transitions>>

\* Fetch path, the write: setScratchOrgInfo({ Id, Allocation_status__c:
\* "Assigned" }) for the next selected record; the record is handed to the
\* fetcher when the call returns true.
FetchAssign(p) ==
  /\ pcFetch[p] = "assign"
  /\ LET element == Head(fetched[p])
         soInfo == [Id |-> element.Id, Allocation_status__c |-> "Assigned"]
     IN  \E outcome \in UpdateOutcomes :
           /\ store' = IF outcome = "success" THEN UpdateStore(store, soInfo) ELSE store
           /\ handed' = IF setScratchOrgInfoReturn(outcome)
                          THEN [handed EXCEPT ![p] = @ \cup {element.Id}]
                          ELSE handed
           /\ transitions' =
                IF /\ outcome = "success"
                   /\ store[element.Id].Allocation_status__c # "Assigned"
                  THEN [transitions EXCEPT ![element.Id] = @ \cup {p}]
                  ELSE transitions
  /\ fetched' = [fetched EXCEPT ![p] = Tail(@)]
  /\ pcFetch' = [pcFetch EXCEPT ![p] = IF Tail(fetched[p]) = <<>> THEN "done" ELSE "assign"]
  /\ UNCHANGED assignedAtRead

InitPool ==
  /\ PrereqInit /\ RetryInit /\ OpInit /\ ListIdle
  /\ SetIdle /\ DeleteIdle /\ CreateIdle /\ RecIdle /\ ExecIdle
  /\ store \in PoolStores
  /\ isNewVersionCompatible = TRUE
  /\ pcFetch = [p \in Fetchers |-> "start"]
  /\ fetched = [p \in Fetchers |-> <<>>]
  /\ handed = [p \in Fetchers |-> {}]
  /\ assignedAtRead = [p \in Fetchers |-> {}]
  /\ transitions = [id \in PoolIds |-> {}]

NextPool ==
  /\ \E p \in Fetchers :
       \/ FetchRead(p)
       \/ FetchAssign(p)
  /\ UNCHANGED <<prereqVars, retryVars, opVars, listVars, setVars, deleteVars,
               createVars, recVars, execVars>>

SpecPool == InitPool /\ [][NextPool]_vars

\* C1 (as stated): under every interleaving of the reads and writes of
\* concurrent fetchers, the same record is never handed to two fetchers.
C1_NeverHandedTwice ==
  \A p, q \in Fetchers : p # q => handed[p] \cap handed[q] = {}

\* C1 (amended): a record is handed only to a fetcher whose read returned it,
\* so never to a fetcher that read after the record was set to Assigned, and
\* one update at most moves it from an unassigned status to Assigned; two
\* fetchers that both read before the first write can be handed the same
\* record.
C1_HandedOnlyIfUnassignedAtRead ==
  /\ \A p \in Fetchers : handed[p] \cap assignedAtRead[p] = {}
  /\ \A p \in Fetchers : \A id \in handed[p] :
       store[id].Allocation_status__c = "Assigned"
  /\ \A id \in PoolIds : Cardinality(transitions[id]) <= 1

\* One fetcher was handed a record; the other read afterwards, was not
\* offered that record and was handed another one.
C1_Witness ==
  \E p, q \in Fetchers :
    /\ p # q
    /\ handed[p] # {} /\ handed[p] \subseteq assignedAtRead[q]
    /\ handed[q] # {} /\ handed[p] \cap handed[q] = {}

-----------------------------------------------------------------------------
(* SpecSetInfo: one call of ScratchOrgUtils.setScratchOrgInfo              *)

\* The statuses a caller asks setScratchOrgInfo to write.
WrittenStatuses == {"Assigned", "Available"}

\* The answer of update(soInfo) for a planned outcome: a single result for a
\* single record, an array of results for an array of records.
UpdateOutcomeOf(batch, planned) ==
  IF ~batch \/ planned = "throws" THEN planned
  ELSE IF planned = "success" THEN "array-success" ELSE "array-failure"

\* try { ... update(soInfo) ... } catch (err) { ...; return false; }: an error
\* of the update never leaves the callback that retry(...) runs.
CatchesUpdateError_Never == FALSE
CatchesUpdateError == TRUE

\* A caller calls setScratchOrgInfo(soInfo, hubOrg); updatePlan is what the
\* remote update would do on each attempt of the retry budget.
SetBegin ==
  /\ pcSet = "idle"
  /\ \E id \in PoolIds, a \in WrittenStatuses, batch \in BOOLEAN :
       soInfoArg' = [Id |-> id, Allocation_status__c |-> a, batch |-> batch]
  /\ updatePlan' \in [1..(Retries + 1) -> UpdateOutcomes]
  /\ pcSet' = "running"
  /\ attempts' = 0
  /\ errors' = <<>>
  /\ updateCalls' = 0
  /\ setResult' = NoSetResult
  /\ UNCHANGED store

\* update(soInfo) throws: the catch returns false and retry(...) resolves with
\* it; were the error to leave the callback, retry(...) would run it again
\* while retries are left.
UpdateThrows ==
  /\ pcSet = "running"
  /\ updatePlan[attempts + 1] = "throws"
  /\ updateCalls' = updateCalls + 1
  /\ attempts' = attempts + 1
  /\ IF CatchesUpdateError
       THEN /\ setResult' = [kind |-> "returned",
                             value |-> setScratchOrgInfoReturn("throws"),
                             outcome |-> "throws"]
            /\ pcSet' = "done"
            /\ UNCHANGED errors
       ELSE /\ errors' = Append(errors, "ECONNRESET")
            /\ IF RetryLeft(attempts + 1)
                 THEN UNCHANGED <<pcSet, setResult>>
                 ELSE /\ pcSet' = "done"
                      /\ setResult' = [kind |-> "rejected", value |-> FALSE,
                                       outcome |-> "throws"]
  /\ UNCHANGED <<store, soInfoArg, updatePlan>>

\* update(soInfo) returns a result: the callback returns result.success, or
\* true for an array of results, and retry(...) resolves with it.
UpdateReturns ==
  /\ pcSet = "running"
  /\ updatePlan[attempts + 1] # "throws"
  /\ LET outcome == UpdateOutcomeOf(soInfoArg.batch, updatePlan[attempts + 1])
     IN  /\ store' = IF updatePlan[attempts + 1] = "success"
                       THEN UpdateStore(store, soInfoArg) ELSE store
         /\ setResult' = [kind |-> "returned",
                          value |-> setScratchOrgInfoReturn(outcome),
                          outcome |-> outcome]
  /\ updateCalls' = updateCalls + 1
  /\ attempts' = attempts + 1
  /\ pcSet' = "done"
  /\ UNCHANGED <<errors, soInfoArg, updatePlan>>

InitSetInfo ==
  /\ PrereqInit /\ RetryInit /\ OpInit /\ ListIdle /\ FetchIdle
  /\ SetIdle /\ DeleteIdle /\ CreateIdle /\ RecIdle /\ ExecIdle
  /\ store \in PoolStores
  /\ isNewVersionCompatible = TRUE

NextSetInfo ==
  /\ \/ SetBegin
     \/ UpdateThrows
     \/ UpdateReturns
  /\ UNCHANGED <<prereqVars, opVars, listVars, fetchVars, deleteVars, createVars, recVars, execVars>>

SpecSetInfo == InitSetInfo /\ [][NextSetInfo]_vars

\* The update throws on the first attempts and would succeed on a later one
\* of the retry budget.
SucceedsOnLaterAttempt ==
  \E i \in 2..(Retries + 1) :
    /\ updatePlan[i] = "success"
    /\ \A j \in 1..(i - 1) : updatePlan[j] = "throws"

\* C11: when the update throws on an early attempt and would succeed on a
\* later attempt of the retry budget, setScratchOrgInfo issues the update
\* again and reports success.
C11_UpdateRetriedUntilSuccess ==
  (pcSet = "done" /\ SucceedsOnLaterAttempt)
    => (updateCalls >= 2 /\ setResult.kind = "returned" /\ setResult.value)

\* C12: setScratchOrgInfo never propagates an update failure; it returns
\* false when the update throws, the success flag of a single-record result,
\* and true for an array result.
C12_ReturnsBooleanNeverThrows ==
  pcSet = "done" =>
    /\ setResult.kind = "returned"
    /\ setResult.value \in BOOLEAN
    /\ setResult.value =
         CASE setResult.outcome = "throws" -> FALSE
           [] setResult.outcome = "success" -> TRUE
           [] setResult.outcome = "failure" -> FALSE
           [] setResult.outcome \in {"array-success", "array-failure"} -> TRUE

\* The update threw and the call returned false, the record left as it was.
C12_Witness ==
  /\ pcSet = "done" /\ setResult.outcome = "throws"
  /\ setResult.kind = "returned" /\ setResult.value = FALSE
  /\ store[soInfoArg.Id].Allocation_status__c # soInfoArg.Allocation_status__c

-----------------------------------------------------------------------------
(* SpecReclaim: concurrent fetchers and one deleteScratchOrg process       *)

\* The allocation statuses of the legacy workflow: assigned or not.
LegacyStatuses == {"", "Assigned"}

\* The pools the pool operations may find, in the mode of the DevHub.
ReclaimStores(newCompatible) ==
  IF newCompatible THEN PoolStores
  ELSE {[id \in PoolIds |->
           [Id |-> id, Pooltag__c |-> "core", Status |-> "Active",
            Allocation_status__c |-> a[id], CreatedBy |-> HubUsername,
            CreatedDate |-> id, Password__c |-> "pw", ScratchOrg |-> "00D"]] :
          a \in [PoolIds -> LegacyStatuses]}

\* The store after hubConn.sobject("ActiveScratchOrg").del(ids) deleted the
\* active scratch orgs of ids: their ScratchOrgInfo is no longer Active.
DeleteFromStore_SoftRelease(st, ids) ==
  [id \in DOMAIN st |->
     IF id \in ids THEN [st[id] EXCEPT !.Allocation_status__c = "Available"]
     ELSE st[id]]
DeleteFromStore(st, ids) ==
  [id \in DOMAIN st |-> IF id \in ids THEN [st[id] EXCEPT !.Status = "Deleted"]
                        ELSE st[id]]

\* deleteScratchOrg(hubOrg, scratchOrgIds) for one org, from the call to its
\* end. An attempt of del(scratchOrgIds) that throws changes nothing in the
\* store and retry(...) runs the callback again; the call ends when an attempt
\* returns, the org deleted or not (a result per id, none thrown), or when
\* the last attempt has thrown.
DeleteScratchOrg ==
  /\ pcDelete = "idle"
  /\ \E id \in PoolIds :
       /\ scratchOrgIds' = {id}
       /\ \/ /\ deleteResult' = "rejected"
             /\ UNCHANGED <<store, deleted>>
          \/ /\ deleteResult' = "resolved"
             /\ \E done \in SUBSET {id} :
                  /\ store' = DeleteFromStore(store, done)
                  /\ deleted' = deleted \cup done
  /\ pcDelete' = "done"
  /\ UNCHANGED <<retryVars, fetchVars>>

InitReclaim ==
  /\ PrereqInit /\ RetryInit /\ OpInit /\ ListIdle
  /\ SetIdle /\ DeleteIdle /\ CreateIdle /\ RecIdle /\ ExecIdle
  /\ isNewVersionCompatible \in BOOLEAN
  /\ store \in ReclaimStores(isNewVersionCompatible)
  /\ pcFetch = [p \in Fetchers |-> "start"]
  /\ fetched = [p \in Fetchers |-> <<>>]
  /\ handed = [p \in Fetchers |-> {}]
  /\ assignedAtRead = [p \in Fetchers |-> {}]
  /\ transitions = [id \in PoolIds |-> {}]

NextReclaim ==
  /\ \/ \E p \in Fetchers :
          /\ \/ FetchRead(p)
             \/ FetchAssign(p)
          /\ UNCHANGED <<retryVars, deleteVars>>
     \/ DeleteScratchOrg
  /\ UNCHANGED <<prereqVars, opVars, listVars, setVars, createVars, recVars, execVars>>

SpecReclaim == InitReclaim /\ [][NextReclaim]_vars

\* C13: once the allocation status of a record is Assigned, no step of a
\* fetch or of a deletion changes the record, except the deletion of its
\* org; the status never returns to Available or In Progress.
C13_AssignedIsConsumed ==
  [][\A id \in PoolIds :
       store[id].Allocation_status__c = "Assigned" =>
         \/ store'[id] = store[id]
         \/ store'[id] = [store[id] EXCEPT !.Status = "Deleted"]]_vars

\* A record was set to Assigned by a fetcher, written again by the other
\* fetcher, and its org was then deleted: it is still Assigned.
C13_Witness ==
  \E id \in PoolIds :
    /\ transitions[id] # {}
    /\ \A p \in Fetchers : id \in handed[p]
    /\ id \in deleted
    /\ store[id].Status = "Deleted"
    /\ store[id].Allocation_status__c = "Assigned"

\* The allocation statuses a pool record may have, by mode.
LegalStatuses(newCompatible) ==
  {"In Progress", "Available", "Allocate", "Assigned"}
    \cup (IF newCompatible THEN {} ELSE {"", Null})

\* C14: under every interleaving of fetchers, updates (failed ones included)
\* and deletions, every pool record has a legal allocation status.
C14_StatusAlwaysLegal ==
  \A id \in DOMAIN store :
    store[id].Allocation_status__c \in LegalStatuses(isNewVersionCompatible)

\* All is over: an org was handed out, an org was deleted, and a record whose
\* updates all failed is still unassigned.
C14_Witness ==
  /\ \A p \in Fetchers : pcFetch[p] = "done"
  /\ pcDelete = "done" /\ deleted # {}
  /\ \E p \in Fetchers : handed[p] # {}
  /\ \E id \in PoolIds :
       /\ store[id].Status = "Active"
       /\ store[id].Allocation_status__c \in {"Available", "In Progress"}
       /\ \A p \in Fetchers : id \notin assignedAtRead[p]

-----------------------------------------------------------------------------
(* SpecCreate: one call of ScratchOrgUtils.createScratchOrg                *)

SequenceIds == {1, 2}                         \* id
AdminEmails == {Null, "admin@example.com"}    \* adminEmail
AliasOf == <<"SO1", "SO2">>                   \* `SO${id}`

\* What createScratchOrgImpl.exec(false) may return.
CreatedOrgs ==
  {[orgId |-> o, username |-> "test-so@example.com"] :
     o \in {"00D000000000001", "00D000000000002"}}

\* What new PasswordGenerateImpl().exec(username) may return: no object, an
\* object without a password, an object with the password.
PasswordResults ==
  {[returned |-> TRUE, present |-> FALSE, password |-> Null],
   [returned |-> TRUE, present |-> TRUE, password |-> Null],
   [returned |-> TRUE, present |-> TRUE, password |-> "s3cret"]}

PasswordSetupError == "Unable to setup password to scratch org"

\* catch (error) { throw error; } around createScratchOrgImpl.exec
Rethrow_Wrapped(error) == "Error: scratch org creation failed"
Rethrow(error) == error

\* if (!passwordData.password)
PasswordMissing_Never(data) == FALSE
PasswordMissing(data) == Falsy(data.password)

\* createScratchOrg rejects with error at its current step, where thrown was
\* raised; no ScratchOrg reaches the caller.
CreateFails(error, thrown) ==
  /\ createResult' = [kind |-> "rejected", error |-> error, value |-> NoScratchOrg,
                      step |-> pcCreate, thrown |-> thrown]
  /\ pcCreate' = "done"

\* A caller calls createScratchOrg(id, adminEmail, config_file_path, expiry, hubOrg).
CreateBegin ==
  /\ pcCreate = "idle"
  /\ \E id \in SequenceIds, adminEmail \in AdminEmails :
       createArgs' = [id |-> id, adminEmail |-> adminEmail]
  /\ pcCreate' = "exec"
  /\ UNCHANGED <<scratchOrg, passwordData, createResult>>

\* result = await createScratchOrgImpl.exec(false): an error is thrown on,
\* else the ScratchOrg object is started from the result.
CreateExec ==
  /\ pcCreate = "exec"
  /\ \/ \E e \in RemoteErrors : CreateFails(Rethrow(e), e) /\ UNCHANGED scratchOrg
     \/ \E result \in CreatedOrgs :
          /\ scratchOrg' = [NoScratchOrg EXCEPT
                              !.alias = AliasOf[createArgs.id],
                              !.orgId = result.orgId,
                              !.username = result.username,
                              !.signupEmail = IF createArgs.adminEmail # Null
                                                THEN createArgs.adminEmail ELSE ""]
          /\ pcCreate' = "loginURL"
          /\ UNCHANGED createResult
  /\ UNCHANGED <<createArgs, passwordData>>

\* scratchOrg.loginURL = await this.getScratchOrgLoginURL(hubOrg, username)
CreateLoginURL ==
  /\ pcCreate = "loginURL"
  /\ \/ \E e \in RemoteErrors : CreateFails(e, e) /\ UNCHANGED scratchOrg
     \/ /\ scratchOrg' = [scratchOrg EXCEPT !.loginURL = "https://login.example.com"]
        /\ pcCreate' = "password"
        /\ UNCHANGED createResult
  /\ UNCHANGED <<createArgs, passwordData>>

\* let passwordData = await new PasswordGenerateImpl().exec(username);
\* scratchOrg.password = passwordData.password (a TypeError without an object)
CreatePassword ==
  /\ pcCreate = "password"
  /\ \/ \E e \in RemoteErrors : CreateFails(e, e) /\ UNCHANGED <<scratchOrg, passwordData>>
     \/ \E data \in PasswordResults :
          /\ passwordData' = data
          /\ IF data.present
               THEN /\ scratchOrg' = [scratchOrg EXCEPT !.password = data.password]
                    /\ pcCreate' = "authInfo"
                    /\ UNCHANGED createResult
               ELSE CreateFails("TypeError", "TypeError") /\ UNCHANGED scratchOrg
  /\ UNCHANGED createArgs

\* const authInfo = await AuthInfo.create({ username }); the auth url is set;
\* then if (!passwordData.password) throw ...; else return scratchOrg.
CreateAuthInfo ==
  /\ pcCreate = "authInfo"
  /\ \/ \E e \in RemoteErrors : CreateFails(e, e) /\ UNCHANGED scratchOrg
     \/ /\ scratchOrg' = [scratchOrg EXCEPT !.sfdxAuthUrl = "force://token@example.com"]
        /\ IF PasswordMissing(passwordData)
             THEN CreateFails(PasswordSetupError, PasswordSetupError)
             ELSE /\ createResult' = [kind |-> "resolved", error |-> NoError,
                                      value |-> scratchOrg', step |-> "none",
                                      thrown |-> NoError]
                  /\ pcCreate' = "done"
  /\ UNCHANGED <<createArgs, passwordData>>

InitCreate ==
  /\ PrereqInit /\ RetryInit /\ OpInit /\ ListIdle /\ FetchIdle
  /\ SetIdle /\ DeleteIdle /\ CreateIdle /\ RecIdle /\ ExecIdle
  /\ store = <<>>
  /\ isNewVersionCompatible = FALSE

NextCreate ==
  /\ \/ CreateBegin
     \/ CreateExec
     \/ CreateLoginURL
     \/ CreatePassword
     \/ CreateAuthInfo
  /\ UNCHANGED <<prereqVars, retryVars, opVars, store, listVars, fetchVars, setVars,
                 deleteVars, recVars, execVars>>

SpecCreate == InitCreate /\ [][NextCreate]_vars

\* C20: when the password-set step returns no password, createScratchOrg
\* fails with 'Unable to setup password to scratch org' and returns no
\* ScratchOrg, whatever the later steps do, a failure of the
\* re-authentication-token step included.
C20_NoPasswordFailsExplicitly ==
  (/\ pcCreate = "done"
   /\ passwordData.returned /\ passwordData.present /\ passwordData.password = Null)
    => /\ createResult.kind = "rejected"
       /\ createResult.error = PasswordSetupError
       /\ createResult.value = NoScratchOrg

\* The field of a ScratchOrg holds a value.
Populated(x) == x \notin {Null, ""}

\* C21: createScratchOrg returns a ScratchOrg only when creation, login URL,
\* password and auth URL all succeeded, with alias SO<id>, orgId, username,
\* loginURL, password and sfdxAuthUrl populated; a failure of any step ends
\* the call with an error and no ScratchOrg, a creation error unchanged.
C21_AllOrNothing ==
  pcCreate = "done" =>
    /\ createResult.kind \in {"resolved", "rejected"}
    /\ createResult.kind = "resolved" =>
         /\ createResult.value.alias = AliasOf[createArgs.id]
         /\ Populated(createResult.value.orgId)
         /\ Populated(createResult.value.username)
         /\ Populated(createResult.value.loginURL)
         /\ Populated(createResult.value.password)
         /\ Populated(createResult.value.sfdxAuthUrl)
         /\ passwordData.returned /\ createResult.value.password = passwordData.password
    /\ createResult.kind = "rejected" =>
         /\ createResult.value = NoScratchOrg
         /\ createResult.error # NoError
         /\ createResult.step = "exec" => createResult.error = createResult.thrown

\* The four steps succeeded and the ScratchOrg of alias SO2 was returned.
C21_Witness ==
  /\ pcCreate = "done" /\ createResult.kind = "resolved"
  /\ createResult.value.alias = "SO2"
  /\ createResult.value.password = "s3cret"
  /\ createResult.value.signupEmail = ""

-----------------------------------------------------------------------------
(* SpecRecordId: one call of ScratchOrgUtils.getScratchOrgRecordId         *)

\* Org ids are sequences of characters.
ShortOrgId == <<"0", "0", "D", "1">>
Org15Id == <<"0", "0", "D", "2">> \o [i \in 1..11 |-> "x"]
Org18Id == Org15Id \o <<"A", "A", "A">>
Other15Id == <<"0", "0", "D", "3">> \o [i \in 1..11 |-> "y"]
Other18Id == Other15Id \o <<"B", "B", "B">>

\* The org ids a caller may pass, in their 15- or 18-character form.
PassedOrgIds == {ShortOrgId, Org15Id, Org18Id, Other18Id}

\* The ScratchOrgInfo records a DevHub may hold for these orgs; the ScratchOrg
\* field holds the 15-character form, one record per org.
KnownOrgInfos ==
  {[Id |-> "2SR1", ScratchOrg |-> ShortOrgId],
   [Id |-> "2SR2", ScratchOrg |-> Org15Id],
   [Id |-> "2SR3", ScratchOrg |-> Other15Id]}

\* The batches a caller may pass: undefined, or up to two ScratchOrg objects.
Batches ==
  {[defined |-> FALSE, ids |-> <<>>]} \cup
  {[defined |-> TRUE, ids |-> b] :
     b \in {<<>>} \cup {<<a>> : a \in PassedOrgIds}
           \cup {<<a, c>> : a, c \in PassedOrgIds}}

\* scratchOrg.orgId.slice(0, 15)
Slice15_Whole(id) == id
Slice15(id) == SubSeq(id, 1, IF Len(id) < 15 THEN Len(id) ELSE 15)

\* WHERE ScratchOrg IN ( ${scratchOrgIds} ): results.records
QueryByOrgIds(infos, ids) == {r \in infos : r.ScratchOrg \in Range(ids)}

\* arrayToObject(results.records, "ScratchOrg")
arrayToObject(records) ==
  [k \in {r.ScratchOrg : r \in records} |-> CHOOSE r \in records : r.ScratchOrg = k]

\* resultAsObject[scratchOrg.orgId]["Id"] throws a TypeError when the object
\* has no entry for the org id.
LookupThrows_Never(obj, key) == FALSE
LookupThrows(obj, key) == key \notin DOMAIN obj

\* resultAsObject[scratchOrg.orgId]["Id"] when it does not throw
LookupId(obj, key) == IF key \in DOMAIN obj THEN obj[key].Id ELSE Null

\* scratchOrgs.forEach((scratchOrg) => { scratchOrg.recordId = ... }): the
\* orgs before the first one without an entry get their recordId, then the
\* TypeError leaves the loop.
AssignRecordIds(orgs, obj) ==
  LET missing == {i \in DOMAIN orgs : LookupThrows(obj, orgs[i].orgId)}
      stop == IF missing = {} THEN Len(orgs) + 1
              ELSE CHOOSE i \in missing : \A j \in missing : i <= j
  IN  [orgs |-> [i \in DOMAIN orgs |->
                   IF i < stop
                     THEN [orgs[i] EXCEPT !.recordId = LookupId(obj, orgs[i].orgId)]
                     ELSE orgs[i]],
       threw |-> missing # {}]

\* A caller calls getScratchOrgRecordId(scratchOrgs, hubOrg): nothing is done
\* for an undefined or empty batch; else every orgId is sliced and the query
\* is built from the sliced ids.
RecordIdBegin ==
  /\ pcRec = "idle"
  /\ \E batch \in Batches :
       /\ passedIds' = batch.ids
       /\ IF ~batch.defined \/ Len(batch.ids) = 0
            THEN /\ scratchOrgs' = [i \in DOMAIN batch.ids |->
                                     [orgId |-> batch.ids[i], recordId |-> Null]]
                 /\ queryIds' = <<>>
                 /\ pcRec' = "done"
                 /\ recResult' = [kind |-> "returned", error |-> NoError]
            ELSE /\ scratchOrgs' = [i \in DOMAIN batch.ids |->
                                     [orgId |-> Slice15(batch.ids[i]), recordId |-> Null]]
                 /\ queryIds' = [i \in DOMAIN batch.ids |-> Slice15(batch.ids[i])]
                 /\ pcRec' = "query"
                 /\ UNCHANGED recResult
  /\ attempts' = 0
  /\ errors' = <<>>
  /\ UNCHANGED <<orgInfos, queries>>

\* The attempt ends with error: retry(...) runs the callback again while
\* retries are left, else rejects with op.mainError().
RecordIdAttemptFails(error) ==
  /\ attempts' = attempts + 1
  /\ errors' = Append(errors, error)
  /\ IF RetryLeft(attempts + 1)
       THEN UNCHANGED <<pcRec, recResult>>
       ELSE /\ pcRec' = "done"
            /\ recResult' = [kind |-> "rejected",
                             error |-> MainError(Append(errors, error))]

\* hubConn.query(query) throws.
RecordIdQueryThrows ==
  /\ pcRec = "query"
  /\ \E e \in RemoteErrors : RecordIdAttemptFails(e)
  /\ queries' = queries + 1
  /\ UNCHANGED <<scratchOrgs, passedIds, orgInfos, queryIds>>

\* hubConn.query(query) returns: the records are keyed by ScratchOrg and each
\* org of the batch takes the Id of its entry; an org without an entry ends
\* the attempt with a TypeError.
RecordIdQueryReturns ==
  /\ pcRec = "query"
  /\ LET records == QueryByOrgIds(orgInfos, queryIds)
         assigned == AssignRecordIds(scratchOrgs, arrayToObject(records))
     IN  /\ scratchOrgs' = assigned.orgs
         /\ IF assigned.threw
              THEN RecordIdAttemptFails("TypeError")
              ELSE /\ attempts' = attempts + 1
                   /\ pcRec' = "done"
                   /\ recResult' = [kind |-> "returned", error |-> NoError]
                   /\ UNCHANGED errors
  /\ queries' = queries + 1
  /\ UNCHANGED <<passedIds, orgInfos, queryIds>>

InitRecordId ==
  /\ PrereqInit /\ RetryInit /\ OpInit /\ ListIdle /\ FetchIdle
  /\ SetIdle /\ DeleteIdle /\ CreateIdle /\ ExecIdle
  /\ store = <<>>
  /\ isNewVersionCompatible = FALSE
  /\ pcRec = "idle"
  /\ scratchOrgs = <<>>
  /\ passedIds = <<>>
  /\ orgInfos \in SUBSET KnownOrgInfos
  /\ queryIds = <<>>
  /\ queries = 0
  /\ recResult = NoRecResult

NextRecordId ==
  /\ \/ RecordIdBegin
     \/ RecordIdQueryThrows
     \/ RecordIdQueryReturns
  /\ UNCHANGED <<prereqVars, opVars, store, listVars, fetchVars, setVars, deleteVars,
                 createVars, execVars>>

SpecRecordId == InitRecordId /\ [][NextRecordId]_vars

\* id is the first 15 characters of passed (all of it when it is shorter).
IsFirst15Of(id, passed) ==
  /\ Len(id) = (IF Len(passed) <= 15 THEN Len(passed) ELSE 15)
  /\ \A k \in 1..Len(id) : id[k] = passed[k]

\* C22: each org id of a batch is truncated to its first 15 characters before
\* the query is built (shorter ids unchanged), and the truncated id is the
\* key that matches the returned records.
C22_TruncatedTo15 ==
  (pcRec # "idle" /\ Len(passedIds) > 0) =>
    /\ Len(scratchOrgs) = Len(passedIds) /\ Len(queryIds) = Len(passedIds)
    /\ \A i \in DOMAIN passedIds :
         /\ IsFirst15Of(scratchOrgs[i].orgId, passedIds[i])
         /\ queryIds[i] = scratchOrgs[i].orgId
         /\ scratchOrgs[i].recordId # Null =>
              \E r \in orgInfos :
                /\ r.Id = scratchOrgs[i].recordId
                /\ IsFirst15Of(r.ScratchOrg, passedIds[i])

\* A short id and an 18-character id were passed; the second was cut to 15
\* characters and both orgs found their record.
C22_Witness ==
  /\ pcRec = "done" /\ recResult.kind = "returned"
  /\ passedIds = <<ShortOrgId, Org18Id>>
  /\ scratchOrgs[1].orgId = ShortOrgId /\ scratchOrgs[2].orgId = Org15Id
  /\ scratchOrgs[1].recordId = "2SR1" /\ scratchOrgs[2].recordId = "2SR2"

\* C23: when getScratchOrgRecordId returns normally every org of the batch
\* has the Id of the record that matches its org id; when an org has no
\* matching record the call fails; no org ever has a recordId that is not the
\* Id of an existing record.
C23_RecordIdNeverMissing ==
  /\ (pcRec = "done" /\ recResult.kind = "returned") =>
       \A i \in DOMAIN scratchOrgs :
         \E r \in orgInfos :
           r.ScratchOrg = scratchOrgs[i].orgId /\ r.Id = scratchOrgs[i].recordId
  /\ (/\ pcRec = "done"
      /\ \E i \in DOMAIN scratchOrgs :
           \A r \in orgInfos : r.ScratchOrg # scratchOrgs[i].orgId)
       => (recResult.kind = "rejected" /\ recResult.error # NoError)
  /\ \A i \in DOMAIN scratchOrgs :
       scratchOrgs[i].recordId # Null =>
         \E r \in orgInfos : r.Id = scratchOrgs[i].recordId

\* The second org of the batch has no record: the call failed after the
\* first org had taken its recordId.
C23_Witness ==
  /\ pcRec = "done" /\ recResult.kind = "rejected"
  /\ Len(scratchOrgs) = 2
  /\ scratchOrgs[1].recordId # Null /\ scratchOrgs[2].recordId = Null
  /\ \A r \in orgInfos : r.ScratchOrg # scratchOrgs[2].orgId

====
